---------------------------- MODULE Spec2Model ----------------------------
(***************************************************************************)
(* Model of the pricing-catalog application:                               *)
(*   - CatalogService.fetchCatalog (the gateway),                          *)
(*   - the show_pricing tool handler (the invocation, with its filter),    *)
(*   - the POST /api/catalog route (the local endpoint),                   *)
(*   - the Home component (the surface controller): its React state, the   *)
(*     fallback effect with its grace timer, the local fetch, the Retry    *)
(*     button and the card selection.                                      *)
(* JavaScript strings are TLA+ strings; the values undefined and null of   *)
(* a string-typed slot are the two reserved strings below.  A JavaScript   *)
(* object is a record holding exactly the keys the object has.             *)
(***************************************************************************)
EXTENDS Integers, Sequences, FiniteSets, TLC

VARIABLES
    \* ---- Home component (surface controller) ----
    isChatGptApp,   \* useIsChatGptApp(): fixed for the life of the page
    mounted,        \* "no" before the first commit, "yes", "gone" after unmount
    toolOutput,     \* window.openai.toolOutput: NullObj or a structuredContent
    widgetState,    \* useWidgetState: [selectedCardId |-> id or NullId]
    localCatalog,   \* useState<CatalogItem[]>([])
    loading,        \* useState(false)
    localError,     \* useState<string | null>(null)
    timer,          \* the pending setTimeout of the fallback effect, or NoTimer
    inflight,       \* number of fetchCatalogData calls awaiting their response
    fetchStarts,    \* history: number of fetchCatalogData calls so far
    retries,        \* history: number of Retry clicks so far
    \* ---- one server-side request (gateway, tool handler, route) ----
    phase,          \* "surface" | "request" | "tool" | "post" | "resolve" | "resolved"
    apiKey,         \* CatalogService.apiKey
    http,           \* what the outbound HTTP call does
    serviceName,    \* the tool's optional argument
    gwResult,       \* what fetchCatalog returned
    filteredCatalog,\* the handler's const filteredCatalog
    toolResult,     \* what the tool handler returned
    postResult,     \* what the POST route answered
    netCalls,       \* history: outbound HTTP calls made by fetchCatalog
    \* ---- one call of getVariantImageUrl ----
    variantName,    \* its first argument
    itemServiceName,\* its second argument (serviceName)
    imageUrl        \* what it returned

surfaceVars == <<isChatGptApp, mounted, toolOutput, widgetState, localCatalog,
                 loading, localError, timer, inflight, fetchStarts, retries>>
serverVars == <<phase, apiKey, http, serviceName, gwResult, filteredCatalog,
                toolResult, postResult, netCalls>>
assetVars == <<variantName, itemServiceName, imageUrl>>
vars == <<surfaceVars, serverVars, assetVars>>

---------------------------------------------------------------------------
(* JavaScript values *)

Undefined == "<undefined>"
Null == "<null>"
NullObj == [null |-> TRUE]

\* Truthiness of a value of type string | null | undefined.
Truthy(s) == s \notin {Undefined, Null, ""}

\* o.k of an object, undefined when the key is missing (o?.k for NullObj).
Get(o, k) == IF k \in DOMAIN o THEN o[k] ELSE Undefined

UpperChars == "ABCDEFGHIJKLMNOPQRSTUVWXYZ"
LowerChars == "abcdefghijklmnopqrstuvwxyz"

CharToLower(c) ==
    IF \E i \in 1..Len(UpperChars) : SubSeq(UpperChars, i, i) = c
    THEN LET i == CHOOSE j \in 1..Len(UpperChars) : SubSeq(UpperChars, j, j) = c
         IN  SubSeq(LowerChars, i, i)
    ELSE c

\* String.prototype.toLowerCase
RECURSIVE ToLowerCase(_)
ToLowerCase(s) ==
    IF Len(s) = 0 THEN ""
    ELSE CharToLower(SubSeq(s, 1, 1)) \o ToLowerCase(SubSeq(s, 2, Len(s)))

IsSpace(c) == c \in {" ", "\t"}

RECURSIVE TrimStart(_)
TrimStart(s) ==
    IF Len(s) > 0 /\ IsSpace(SubSeq(s, 1, 1))
    THEN TrimStart(SubSeq(s, 2, Len(s)))
    ELSE s

RECURSIVE TrimEnd(_)
TrimEnd(s) ==
    IF Len(s) > 0 /\ IsSpace(SubSeq(s, Len(s), Len(s)))
    THEN TrimEnd(SubSeq(s, 1, Len(s) - 1))
    ELSE s

\* String.prototype.trim
Trim(s) == TrimEnd(TrimStart(s))

\* s starts with t
StartsWith(s, t) == Len(t) <= Len(s) /\ SubSeq(s, 1, Len(t)) = t

\* String.prototype.includes: scan s from the left for an occurrence of t
RECURSIVE Includes(_, _)
Includes(s, t) ==
    IF StartsWith(s, t) THEN TRUE
    ELSE IF Len(s) = 0 THEN FALSE
    ELSE Includes(SubSeq(s, 2, Len(s)), t)

---------------------------------------------------------------------------
(* CatalogService.fetchCatalog: the gateway *)

\* The key the constructor stores.
ConfiguredApiKey == "p4xI6QzOPI4EyFg38qtcJ1nImIFru7zW3LcrSIOh"

\* Response.ok of the fetch API: the status is in the range 200-299.
ResponseOk(status) == status >= 200 /\ status <= 299

\* Array.isArray(v) for a property value v of the decoded body.
IsArray(v) == v.t = "array"

\* Truthiness of a property value of the decoded body (a missing property
\* reads as undefined; an array, even an empty one, is truthy).
FieldTruthy(v) == v.t \in {"array", "object"}

\* The "different response structures" branch: the catalog extracted from
\* the decoded body, or the TypeError of reading a property of null.
NormalizeBody(data) ==
    IF data.t = "array" THEN [threw |-> FALSE, catalog |-> data.items]
    ELSE IF data.t = "null"
    THEN [threw |-> TRUE,
          message |-> "Cannot read properties of null (reading 'catalog')"]
    ELSE IF data.t # "object" THEN [threw |-> FALSE, catalog |-> <<>>]
    ELSE IF FieldTruthy(data.catalog) /\ IsArray(data.catalog)
    THEN [threw |-> FALSE, catalog |-> data.catalog.items]
    ELSE IF FieldTruthy(data.data) /\ IsArray(data.data)
    THEN [threw |-> FALSE, catalog |-> data.data.items]
    ELSE [threw |-> FALSE, catalog |-> <<>>]

\* catch (error): error instanceof Error ? error.message : "Failed ..."
CatchMessage(isError, message) ==
    IF isError THEN message ELSE "Failed to fetch catalog data"

\* Variant of fetchCatalog without the test of the key.
FetchCatalogNoKeyCheck(key, h) ==
    IF h.kind = "reject"
    THEN [catalog |-> <<>>, error |-> CatchMessage(h.isError, h.message)]
    ELSE IF ~ResponseOk(h.status)
    THEN [catalog |-> <<>>,
          error |-> "Failed to fetch catalog: " \o ToString(h.status)
                      \o " " \o h.statusText]
    ELSE IF h.body.t = "invalid"
    THEN [catalog |-> <<>>, error |-> CatchMessage(TRUE, h.body.message)]
    ELSE LET n == NormalizeBody(h.body)
         IN  IF n.threw
             THEN [catalog |-> <<>>, error |-> CatchMessage(TRUE, n.message)]
             ELSE [catalog |-> n.catalog]

\* Mutant of FetchCatalog: response.ok is not tested before the body is read.
FetchCatalogNoStatusCheck(key, h) ==
    IF ~Truthy(key)
    THEN [catalog |-> <<>>,
          error |-> "API key not configured. Please set CATALOG_API_KEY environment variable."]
    ELSE IF h.kind = "reject"
    THEN [catalog |-> <<>>, error |-> CatchMessage(h.isError, h.message)]
    ELSE IF h.body.t = "invalid"
    THEN [catalog |-> <<>>, error |-> CatchMessage(TRUE, h.body.message)]
    ELSE LET n == NormalizeBody(h.body)
         IN  IF n.threw
             THEN [catalog |-> <<>>, error |-> CatchMessage(TRUE, n.message)]
             ELSE [catalog |-> n.catalog]

\* fetchCatalog(), given the stored key and what the HTTP call does.
FetchCatalog(key, h) ==
    IF ~Truthy(key)
    THEN [catalog |-> <<>>,
          error |-> "API key not configured. Please set CATALOG_API_KEY environment variable."]
    ELSE IF h.kind = "reject"
    THEN [catalog |-> <<>>, error |-> CatchMessage(h.isError, h.message)]
    ELSE IF ~ResponseOk(h.status)
    THEN [catalog |-> <<>>,
          error |-> "Failed to fetch catalog: " \o ToString(h.status)
                      \o " " \o h.statusText]
    ELSE IF h.body.t = "invalid"
    THEN [catalog |-> <<>>, error |-> CatchMessage(TRUE, h.body.message)]
    ELSE LET n == NormalizeBody(h.body)
         IN  IF n.threw
             THEN [catalog |-> <<>>, error |-> CatchMessage(TRUE, n.message)]
             ELSE [catalog |-> n.catalog]

\* Variant of fetchCatalog that repeats its HTTP call once.
FetchCatalogCallsTwice(key) == IF ~Truthy(key) THEN 0 ELSE 2

\* Outbound HTTP calls one fetchCatalog() makes.
FetchCatalogCalls(key) == IF ~Truthy(key) THEN 0 ELSE 1

---------------------------------------------------------------------------
(* The show_pricing tool handler: the invocation and its filter *)

\* item.field?.toLowerCase() || ''
FieldLower(v) ==
    IF v \in {Undefined, Null} THEN ""
    ELSE ToLowerCase(v)

\* Mutant of FilterKeeps: the search term is lower-cased but not trimmed.
FilterKeepsNoTrim(item, sn) ==
    LET searchTerm == ToLowerCase(sn)
    IN  \/ Includes(FieldLower(item.service_name), searchTerm)
        \/ Includes(FieldLower(item.variant_name), searchTerm)
        \/ Includes(FieldLower(item.category), searchTerm)

\* The predicate handed to catalog.filter.
FilterKeeps(item, sn) ==
    LET searchTerm == Trim(ToLowerCase(sn))
        serviceNameLower == FieldLower(item.service_name)
        variantNameLower == FieldLower(item.variant_name)
        categoryLower == FieldLower(item.category)
    IN  \/ Includes(serviceNameLower, searchTerm)
        \/ Includes(variantNameLower, searchTerm)
        \/ Includes(categoryLower, searchTerm)

\* Mutant of ArrayFilter: a kept item is put after the later kept items.
RECURSIVE ArrayFilterReversed(_, _)
ArrayFilterReversed(items, sn) ==
    IF Len(items) = 0 THEN <<>>
    ELSE IF FilterKeeps(Head(items), sn)
    THEN ArrayFilterReversed(Tail(items), sn) \o <<Head(items)>>
    ELSE ArrayFilterReversed(Tail(items), sn)

\* Array.prototype.filter with that predicate.
RECURSIVE ArrayFilter(_, _)
ArrayFilter(items, sn) ==
    IF Len(items) = 0 THEN <<>>
    ELSE IF FilterKeeps(Head(items), sn)
    THEN <<Head(items)>> \o ArrayFilter(Tail(items), sn)
    ELSE ArrayFilter(Tail(items), sn)

\* const filteredCatalog = serviceName ? catalog.filter(...) : catalog
FilteredCatalog(items, sn) ==
    IF Truthy(sn) THEN ArrayFilter(items, sn) ELSE items

\* serviceName || null
OrNull(sn) == IF Truthy(sn) THEN sn ELSE Null

\* Variant of the handler whose summary never quotes the query.
ToolHandlerNoEcho(sn, r) ==
    LET gwCatalog == r.catalog
        gwError == Get(r, "error")
        filtered == FilteredCatalog(gwCatalog, sn)
    IN  IF Truthy(gwError)
        THEN [text |-> "Error fetching catalog: " \o gwError
                         \o ". Please check the API configuration.",
              structuredContent |->
                  [serviceName |-> OrNull(sn), catalog |-> <<>>, error |-> gwError]]
        ELSE IF Len(filtered) = 0
        THEN [text |-> IF Truthy(sn)
                       THEN "No services found matching \"" \o sn
                              \o "\". Showing all available services."
                       ELSE "No services available in the catalog.",
              structuredContent |->
                  [serviceName |-> OrNull(sn), catalog |-> gwCatalog,
                   count |-> Len(gwCatalog),
                   message |-> IF Truthy(sn)
                               THEN "No matching services found, showing all"
                               ELSE "No services available"]]
        ELSE [text |-> "Found " \o ToString(Len(filtered)) \o " service(s)"
                         \o ""
                         \o ".",
              structuredContent |->
                  [serviceName |-> OrNull(sn), catalog |-> filtered,
                   count |-> Len(filtered)]]

\* Variant of the handler that counts the unfiltered catalog.
ToolHandlerCountsAll(sn, r) ==
    LET gwCatalog == r.catalog
        gwError == Get(r, "error")
        filtered == FilteredCatalog(gwCatalog, sn)
    IN  IF Truthy(gwError)
        THEN [text |-> "Error fetching catalog: " \o gwError
                         \o ". Please check the API configuration.",
              structuredContent |->
                  [serviceName |-> OrNull(sn), catalog |-> <<>>, error |-> gwError]]
        ELSE IF Len(filtered) = 0
        THEN [text |-> IF Truthy(sn)
                       THEN "No services found matching \"" \o sn
                              \o "\". Showing all available services."
                       ELSE "No services available in the catalog.",
              structuredContent |->
                  [serviceName |-> OrNull(sn), catalog |-> gwCatalog,
                   count |-> Len(gwCatalog),
                   message |-> IF Truthy(sn)
                               THEN "No matching services found, showing all"
                               ELSE "No services available"]]
        ELSE [text |-> "Found " \o ToString(Len(filtered)) \o " service(s)"
                         \o (IF Truthy(sn) THEN " matching \"" \o sn \o "\"" ELSE "")
                         \o ".",
              structuredContent |->
                  [serviceName |-> OrNull(sn), catalog |-> filtered,
                   count |-> Len(gwCatalog)]]

\* Mutant of ToolHandler: the empty-filter branch returns the filtered set.
ToolHandlerNoFallback(sn, r) ==
    LET gwCatalog == r.catalog
        gwError == Get(r, "error")
        filtered == FilteredCatalog(gwCatalog, sn)
    IN  IF Truthy(gwError)
        THEN [text |-> "Error fetching catalog: " \o gwError
                         \o ". Please check the API configuration.",
              structuredContent |->
                  [serviceName |-> OrNull(sn), catalog |-> <<>>, error |-> gwError]]
        ELSE IF Len(filtered) = 0
        THEN [text |-> IF Truthy(sn)
                       THEN "No services found matching \"" \o sn
                              \o "\". Showing all available services."
                       ELSE "No services available in the catalog.",
              structuredContent |->
                  [serviceName |-> OrNull(sn), catalog |-> filtered,
                   count |-> Len(filtered),
                   message |-> IF Truthy(sn)
                               THEN "No matching services found, showing all"
                               ELSE "No services available"]]
        ELSE [text |-> "Found " \o ToString(Len(filtered)) \o " service(s)"
                         \o (IF Truthy(sn) THEN " matching \"" \o sn \o "\"" ELSE "")
                         \o ".",
              structuredContent |->
                  [serviceName |-> OrNull(sn), catalog |-> filtered,
                   count |-> Len(filtered)]]

\* The handler's result for argument sn, given what fetchCatalog returned.
ToolHandler(sn, r) ==
    LET gwCatalog == r.catalog
        gwError == Get(r, "error")
        filtered == FilteredCatalog(gwCatalog, sn)
    IN  IF Truthy(gwError)
        THEN [text |-> "Error fetching catalog: " \o gwError
                         \o ". Please check the API configuration.",
              structuredContent |->
                  [serviceName |-> OrNull(sn), catalog |-> <<>>, error |-> gwError]]
        ELSE IF Len(filtered) = 0
        THEN [text |-> IF Truthy(sn)
                       THEN "No services found matching \"" \o sn
                              \o "\". Showing all available services."
                       ELSE "No services available in the catalog.",
              structuredContent |->
                  [serviceName |-> OrNull(sn), catalog |-> gwCatalog,
                   count |-> Len(gwCatalog),
                   message |-> IF Truthy(sn)
                               THEN "No matching services found, showing all"
                               ELSE "No services available"]]
        ELSE [text |-> "Found " \o ToString(Len(filtered)) \o " service(s)"
                         \o (IF Truthy(sn) THEN " matching \"" \o sn \o "\"" ELSE "")
                         \o ".",
              structuredContent |->
                  [serviceName |-> OrNull(sn), catalog |-> filtered,
                   count |-> Len(filtered)]]

---------------------------------------------------------------------------
(* POST /api/catalog: the local endpoint *)

\* The route's response, given what fetchCatalog returned.
PostRoute(r) ==
    IF Truthy(Get(r, "error"))
    THEN [status |-> 500, body |-> [error |-> r.error]]
    ELSE [status |-> 200, body |-> [catalog |-> r.catalog]]

---------------------------------------------------------------------------
(* Home: the surface controller *)

\* selectedCardId: null
NullId == -1
\* The delay handed to setTimeout, in milliseconds.
GraceMs == 2000
\* Granularity of the passage of time, in milliseconds.
TickMs == 1000
\* Local fetches one behaviour may start.
MaxFetches == 3

NoCard == NullObj
NoTimer == [pending |-> FALSE]

\* toolOutput?.catalog || []
CatalogFromTool(to) == IF "catalog" \in DOMAIN to THEN to.catalog ELSE <<>>
\* toolOutput?.error
ErrorFromTool(to) == Get(to, "error")
\* Mutant of Catalog: the local list is preferred to the invocation's.
CatalogLocalFirst(to, lc) ==
    IF Len(lc) > 0 THEN lc ELSE CatalogFromTool(to)

\* catalogFromTool.length > 0 ? catalogFromTool : localCatalog
Catalog(to, lc) ==
    IF Len(CatalogFromTool(to)) > 0 THEN CatalogFromTool(to) ELSE lc
\* errorFromTool || localError
Error(to, le) == IF Truthy(ErrorFromTool(to)) THEN ErrorFromTool(to) ELSE le

\* Array.prototype.find on item.id === id; NoCard for undefined.
RECURSIVE Find(_, _)
Find(items, id) ==
    IF Len(items) = 0 THEN NoCard
    ELSE IF Head(items).id = id THEN Head(items)
    ELSE Find(Tail(items), id)

\* Mutant of SelectedCard: the lookup reads the local list when it has items.
SelectedCardInLocal(ws, cat) ==
    IF ws.selectedCardId # NullId /\ ws.selectedCardId # 0
    THEN Find(IF Len(localCatalog) > 0 THEN localCatalog ELSE cat,
              ws.selectedCardId)
    ELSE NoCard

\* widgetState?.selectedCardId ? catalog.find(...) || null : null
SelectedCard(ws, cat) ==
    IF ws.selectedCardId # NullId /\ ws.selectedCardId # 0
    THEN Find(cat, ws.selectedCardId)
    ELSE NoCard

\* What the current render shows.
catalogFromTool == CatalogFromTool(toolOutput)
errorFromTool == ErrorFromTool(toolOutput)
catalog == Catalog(toolOutput, localCatalog)
error == Error(toolOutput, localError)
selectedCard == SelectedCard(widgetState, catalog)

\* The hook state that the local fetch and the fallback effect touch.
Cur ==
    [localCatalog |-> localCatalog, loading |-> loading,
     localError |-> localError, timer |-> timer,
     inflight |-> inflight, fetchStarts |-> fetchStarts]

\* fetchCatalogData up to its first await: two state updates and the request.
FetchCatalogDataStart(c) ==
    [c EXCEPT !.loading = TRUE, !.localError = Null,
              !.inflight = @ + 1, !.fetchStarts = @ + 1]

\* Mutant of EffectCondition: the in-flight flag is not tested.
EffectConditionNoLoading(cftLength, ld, lcLength, le) ==
    cftLength = 0 /\ lcLength = 0 /\ ~Truthy(le)

\* The test guarding fetchCatalogData in the fallback effect and its timer.
EffectCondition(cftLength, ld, lcLength, le) ==
    cftLength = 0 /\ ~ld /\ lcLength = 0 /\ ~Truthy(le)

\* Mutant of EffectDeps: catalogFromTool.length is left out of the array.
EffectDepsNoTool(to, c) ==
    <<isChatGptApp, c.loading, Len(c.localCatalog), c.localError>>

\* The dependency array of the fallback effect.
EffectDeps(to, c) ==
    <<isChatGptApp, Len(CatalogFromTool(to)), c.loading,
      Len(c.localCatalog), c.localError>>

\* Variant of the effect whose host branch fetches at once, like the
\* standalone branch.
RunEffectNoGrace(to, c) ==
    IF EffectCondition(Len(CatalogFromTool(to)), c.loading,
                       Len(c.localCatalog), c.localError)
    THEN [FetchCatalogDataStart(c) EXCEPT !.timer = NoTimer]
    ELSE [c EXCEPT !.timer = NoTimer]

\* Variant of the effect that waits for the timer in standalone mode too.
RunEffectAlwaysGrace(to, c) ==
    [c EXCEPT !.timer =
        [pending |-> TRUE, remaining |-> GraceMs,
         catalogFromToolLength |-> Len(CatalogFromTool(to)),
         loading |-> c.loading,
         localCatalogLength |-> Len(c.localCatalog),
         localError |-> c.localError]]

\* One run of the fallback effect (after the cleanup of the previous run).
RunEffect(to, c) ==
    IF ~isChatGptApp
    THEN IF EffectCondition(Len(CatalogFromTool(to)), c.loading,
                            Len(c.localCatalog), c.localError)
         THEN [FetchCatalogDataStart(c) EXCEPT !.timer = NoTimer]
         ELSE [c EXCEPT !.timer = NoTimer]
    ELSE [c EXCEPT !.timer =
              [pending |-> TRUE, remaining |-> GraceMs,
               catalogFromToolLength |-> Len(CatalogFromTool(to)),
               loading |-> c.loading,
               localCatalogLength |-> Len(c.localCatalog),
               localError |-> c.localError]]

\* Re-render after a state change: the effect runs again when a dependency
\* differs from the one of the previous run, until the state settles.
RECURSIVE Commit(_, _, _)
Commit(prevDeps, to, c) ==
    IF EffectDeps(to, c) = prevDeps THEN c
    ELSE Commit(EffectDeps(to, c), to, RunEffect(to, c))

\* The committed hook state becomes the next state.
Apply(c) ==
    /\ c.fetchStarts <= MaxFetches
    /\ localCatalog' = c.localCatalog
    /\ loading' = c.loading
    /\ localError' = c.localError
    /\ timer' = c.timer
    /\ inflight' = c.inflight
    /\ fetchStarts' = c.fetchStarts

---------------------------------------------------------------------------
(* The inputs: catalog items, response bodies, HTTP outcomes, queries *)

\* Longest catalog the remote source returns to a server-side request.
MaxCatalogLen == 2

ItemA == [id |-> 0, service_name |-> "Usa Co", variant_name |-> "De",
          category |-> "Reg"]
ItemB == [id |-> 7, service_name |-> "USA Co", variant_name |-> "NY",
          category |-> Undefined]
ItemB2 == [id |-> 7, service_name |-> "Tax", variant_name |-> Undefined,
           category |-> "Reg"]
ItemC == [id |-> 2, service_name |-> Undefined, variant_name |-> "",
          category |-> "TAX"]
Items == {ItemA, ItemB, ItemB2, ItemC}

Catalogs == UNION {[1..n -> Items] : n \in 0..MaxCatalogLen}

ArrayBody(l) == [t |-> "array", items |-> l]
ObjectBody(c, d) == [t |-> "object", catalog |-> c, data |-> d]
Absent == [t |-> "absent"]
Response(status, statusText, body) ==
    [kind |-> "response", status |-> status, statusText |-> statusText,
     body |-> body]
Reject(isError, message) ==
    [kind |-> "reject", isError |-> isError, message |-> message]

\* Decoded bodies of a response.
Bodies ==
    {ArrayBody(l) : l \in Catalogs}
        \cup {ObjectBody(ArrayBody(l), Absent) : l \in Catalogs}
        \cup {ObjectBody(Absent, ArrayBody(l)) : l \in Catalogs}
        \cup {ObjectBody([t |-> "string"], ArrayBody(<<ItemA>>)),
              ObjectBody([t |-> "null"], ArrayBody(<<ItemB>>)),
              ObjectBody(ArrayBody(<<>>), ArrayBody(<<ItemA>>)),
              ObjectBody(ArrayBody(<<ItemC>>), ArrayBody(<<ItemA>>)),
              ObjectBody(Absent, [t |-> "string"]),
              ObjectBody(Absent, Absent),
              [t |-> "null"], [t |-> "number"], [t |-> "string"],
              [t |-> "boolean"]}

\* What the outbound HTTP call of fetchCatalog may do.
HttpOutcomes ==
    {Response(200, "OK", b) : b \in Bodies}
        \cup {Response(200, "OK", [t |-> "invalid",
                                  message |-> "Unexpected token < in JSON at position 0"]),
              Response(500, "Internal Server Error", ObjectBody(Absent, Absent)),
              Response(403, "Forbidden", ArrayBody(<<ItemA>>)),
              Response(404, "", [t |-> "invalid",
                                 message |-> "Unexpected end of JSON input"]),
              Reject(TRUE, "fetch failed"),
              Reject(TRUE, ""),
              Reject(FALSE, "")}

\* The tool's serviceName argument.
Queries == {Undefined, "", "usa", " USA ", "de", "Reg", "zz", " "}

\* apiKey is declared string | undefined; the constructor stores a literal.
ApiKeys == {ConfiguredApiKey, Undefined, ""}

\* The outcomes and queries the surface controller is exercised with.
SurfaceHttp ==
    {Response(200, "OK", ArrayBody(<<ItemA, ItemB>>)),
     Response(200, "OK", ObjectBody(ArrayBody(<<ItemB2, ItemC>>), Absent)),
     Response(200, "OK", ArrayBody(<<>>)),
     Response(500, "Internal Server Error", ObjectBody(Absent, Absent)),
     Reject(TRUE, "fetch failed")}
SurfaceQueries == {Undefined, "de", "zz"}

\* structuredContent of the invocations the host may inject.
ToolOutputs ==
    {ToolHandler(q, FetchCatalog(ConfiguredApiKey, h)).structuredContent :
        q \in SurfaceQueries, h \in SurfaceHttp}

\* What the browser's fetch("/api/catalog") may resolve or reject with.
LocalResponses ==
    {LET p == PostRoute(FetchCatalog(ConfiguredApiKey, h))
     IN  Response(p.status, "", p.body) : h \in SurfaceHttp}
        \cup {Reject(TRUE, "Failed to fetch")}

---------------------------------------------------------------------------
(* The surface controller's operations *)

\* No call of getVariantImageUrl is part of the behaviour.
AssetIdle ==
    /\ variantName = Undefined
    /\ itemServiceName = Undefined
    /\ imageUrl = ""

\* The server-side request is not part of a surface behaviour.
ServerIdle ==
    /\ phase = "surface"
    /\ apiKey = ConfiguredApiKey
    /\ http = Reject(TRUE, "")
    /\ serviceName = Undefined
    /\ gwResult = [catalog |-> <<>>]
    /\ filteredCatalog = <<>>
    /\ toolResult = NullObj
    /\ postResult = NullObj
    /\ netCalls = 0

\* Home's state at its first render, before any effect has run.
Init ==
    /\ isChatGptApp \in BOOLEAN
    /\ mounted = "no"
    /\ toolOutput = NullObj
    /\ widgetState = [selectedCardId |-> NullId]
    /\ localCatalog = <<>>
    /\ loading = FALSE
    /\ localError = Null
    /\ timer = NoTimer
    /\ inflight = 0
    /\ fetchStarts = 0
    /\ retries = 0
    /\ ServerIdle
    /\ AssetIdle

\* The first commit: the fallback effect runs for the first time.
Mount ==
    /\ mounted = "no"
    /\ mounted' = "yes"
    /\ Apply(Commit(EffectDeps(toolOutput, Cur), toolOutput,
                    RunEffect(toolOutput, Cur)))
    /\ UNCHANGED <<isChatGptApp, toolOutput, widgetState, retries, serverVars, assetVars>>

\* Variant of the injection that also drops the stored selection.
HostSetToolOutputDropsSelection(out) ==
    /\ isChatGptApp
    /\ mounted # "gone"
    /\ out # toolOutput
    /\ toolOutput' = out
    /\ IF mounted = "yes"
       THEN Apply(Commit(EffectDeps(toolOutput, Cur), out, Cur))
       ELSE UNCHANGED <<localCatalog, loading, localError, timer, inflight,
                        fetchStarts>>
    /\ widgetState' = [selectedCardId |-> NullId]
    /\ UNCHANGED <<isChatGptApp, mounted, retries, serverVars, assetVars>>

\* The host injects the structuredContent of an invocation (useWidgetProps).
HostSetToolOutput(out) ==
    /\ isChatGptApp
    /\ mounted # "gone"
    /\ out # toolOutput
    /\ toolOutput' = out
    /\ IF mounted = "yes"
       THEN Apply(Commit(EffectDeps(toolOutput, Cur), out, Cur))
       ELSE UNCHANGED <<localCatalog, loading, localError, timer, inflight,
                        fetchStarts>>
    /\ UNCHANGED <<isChatGptApp, mounted, widgetState, retries, serverVars, assetVars>>

\* Time passes while a timer is pending.
Tick ==
    /\ timer.pending
    /\ timer.remaining > 0
    /\ timer' = [timer EXCEPT !.remaining =
                     IF @ > TickMs THEN @ - TickMs ELSE 0]
    /\ UNCHANGED <<isChatGptApp, mounted, toolOutput, widgetState, localCatalog,
                   loading, localError, inflight, fetchStarts, retries,
                   serverVars, assetVars>>

\* The setTimeout callback of the fallback effect: it tests the values its
\* effect run captured.
TimerFire ==
    /\ timer.pending
    /\ timer.remaining = 0
    /\ LET fires == EffectCondition(timer.catalogFromToolLength, timer.loading,
                                    timer.localCatalogLength, timer.localError)
           c0 == [Cur EXCEPT !.timer = NoTimer]
       IN  IF mounted = "yes"
           THEN Apply(Commit(EffectDeps(toolOutput, Cur), toolOutput,
                             IF fires THEN FetchCatalogDataStart(c0) ELSE c0))
           ELSE \* state updates of an unmounted component are dropped
                Apply(IF fires
                      THEN [c0 EXCEPT !.inflight = @ + 1, !.fetchStarts = @ + 1]
                      ELSE c0)
    /\ UNCHANGED <<isChatGptApp, mounted, toolOutput, widgetState, retries,
                   serverVars, assetVars>>

\* Variant of fetchCatalogData that resets loading at the end of the try
\* block instead of in finally.
FetchCatalogDataSettleNoFinally(c, resp) ==
    LET done == [c EXCEPT !.loading = FALSE, !.inflight = @ - 1]
        thrown == [c EXCEPT !.inflight = @ - 1]
    IN  IF resp.kind = "reject"
        THEN [thrown EXCEPT !.localError =
                  IF resp.isError THEN resp.message
                  ELSE "Failed to fetch catalog data"]
        ELSE IF ~ResponseOk(resp.status)
        THEN [thrown EXCEPT !.localError =
                  IF Truthy(Get(resp.body, "error")) THEN resp.body.error
                  ELSE "Failed to fetch: " \o ToString(resp.status)]
        ELSE [done EXCEPT !.localCatalog =
                  IF "catalog" \in DOMAIN resp.body THEN resp.body.catalog
                  ELSE <<>>]

\* fetchCatalogData after its await: the response (or the rejection) of
\* fetch("/api/catalog") is handled, then finally setLoading(false).
FetchCatalogDataSettle(c, resp) ==
    LET done == [c EXCEPT !.loading = FALSE, !.inflight = @ - 1]
    IN  IF resp.kind = "reject"
        THEN [done EXCEPT !.localError =
                  IF resp.isError THEN resp.message
                  ELSE "Failed to fetch catalog data"]
        ELSE IF ~ResponseOk(resp.status)
        THEN [done EXCEPT !.localError =
                  IF Truthy(Get(resp.body, "error")) THEN resp.body.error
                  ELSE "Failed to fetch: " \o ToString(resp.status)]
        ELSE [done EXCEPT !.localCatalog =
                  IF "catalog" \in DOMAIN resp.body THEN resp.body.catalog
                  ELSE <<>>]

\* A local fetch in flight completes.
LocalFetchDone(resp) ==
    /\ inflight > 0
    /\ IF mounted = "yes"
       THEN Apply(Commit(EffectDeps(toolOutput, Cur), toolOutput,
                         FetchCatalogDataSettle(Cur, resp)))
       ELSE /\ inflight' = inflight - 1
            /\ UNCHANGED <<localCatalog, loading, localError, timer, fetchStarts>>
    /\ UNCHANGED <<isChatGptApp, mounted, toolOutput, widgetState, retries,
                   serverVars, assetVars>>

\* The Retry button is rendered.
RetryShown == Len(catalog) = 0 /\ ~Truthy(error) /\ ~loading

\* A click on the Retry button: onClick={fetchCatalogData}.
Retry ==
    /\ mounted = "yes"
    /\ RetryShown
    /\ retries' = retries + 1
    /\ Apply(Commit(EffectDeps(toolOutput, Cur), toolOutput,
                    FetchCatalogDataStart(Cur)))
    /\ UNCHANGED <<isChatGptApp, mounted, toolOutput, widgetState, serverVars, assetVars>>

\* handleCardClick on a card of the displayed list.
HandleCardClick(item) ==
    /\ mounted = "yes"
    /\ \E i \in 1..Len(catalog) : catalog[i] = item
    /\ widgetState' = [selectedCardId |-> item.id]
    /\ UNCHANGED <<isChatGptApp, mounted, toolOutput, localCatalog, loading,
                   localError, timer, inflight, fetchStarts, retries,
                   serverVars, assetVars>>

\* handleCloseDetails: the modal is rendered only for a resolved card.
HandleCloseDetails ==
    /\ mounted = "yes"
    /\ selectedCard # NoCard
    /\ widgetState' = [selectedCardId |-> NullId]
    /\ UNCHANGED <<isChatGptApp, mounted, toolOutput, localCatalog, loading,
                   localError, timer, inflight, fetchStarts, retries,
                   serverVars, assetVars>>

\* Variant of the cleanup that leaves the timer alone.
UnmountKeepsTimer(t) == t

\* The component is torn down: the effect's cleanup clears the timer.
UnmountCleanup(t) == NoTimer

Unmount ==
    /\ mounted = "yes"
    /\ mounted' = "gone"
    /\ timer' = UnmountCleanup(timer)
    /\ UNCHANGED <<isChatGptApp, toolOutput, widgetState, localCatalog, loading,
                   localError, inflight, fetchStarts, retries, serverVars, assetVars>>

Next ==
    \/ Mount
    \/ \E out \in ToolOutputs : HostSetToolOutput(out)
    \/ Tick
    \/ TimerFire
    \/ \E resp \in LocalResponses : LocalFetchDone(resp)
    \/ Retry
    \/ \E item \in Items : HandleCardClick(item)
    \/ HandleCloseDetails
    \/ Unmount

Spec == Init /\ [][Next]_vars

\* The event loop: time passes while a timer is pending, and a timer whose
\* delay has elapsed runs its callback.
Fairness == WF_vars(Tick) /\ WF_vars(TimerFire)

SpecFair == Spec /\ Fairness

---------------------------------------------------------------------------
(* Claims about the surface controller *)

\* What the error banner shows: the message, or nothing for a falsy error.
Banner(e) == IF Truthy(e) THEN e ELSE ""

\* The stored timer callback would start a local fetch when it fires.
TimerWouldFetch(t) ==
    /\ t.pending
    /\ EffectCondition(t.catalogFromToolLength, t.loading,
                       t.localCatalogLength, t.localError)

\* C1: whenever the injected tool output holds a catalog of length > 0, the
\* displayed list is exactly that catalog, whatever the local fetch stored.
C1_InvocationWins ==
    ("catalog" \in DOMAIN toolOutput /\ Len(toolOutput.catalog) > 0)
        => catalog = toolOutput.catalog

\* C1 witness: a local fetch has stored a different non-empty list while an
\* invocation catalog is present.
C1_Witness ==
    /\ mounted = "yes"
    /\ "catalog" \in DOMAIN toolOutput
    /\ Len(toolOutput.catalog) > 0
    /\ Len(localCatalog) > 0
    /\ localCatalog # toolOutput.catalog

\* C2 (as claimed): without a Retry click, at most one local fetch is ever
\* started in a mount, whatever the outcome of the first one.
C2_AtMostOneFetchWithoutRetry == retries = 0 => fetchStarts <= 1

\* C3: no step starts a local fetch while invocation data of length > 0 is
\* present, and once it is present no pending timer would start one.
C3_NoFetchWithInvocationData ==
    [][/\ fetchStarts' > fetchStarts
            => Len(catalogFromTool) = 0 /\ Len(catalogFromTool') = 0
       /\ Len(catalogFromTool') > 0 => ~TimerWouldFetch(timer')]_vars

\* C3 witness: in host mode the invocation arrived before the fallback fired,
\* the timer has since run out and fired, and no local fetch was ever started.
C3_Witness ==
    /\ isChatGptApp
    /\ mounted = "yes"
    /\ Len(catalogFromTool) > 0
    /\ ~timer.pending
    /\ fetchStarts = 0

\* C4: at most one local fetch is in flight at any time.
C4_AtMostOneInFlight == inflight <= 1

\* C4 witness: a fetch started by a Retry click is in flight after an earlier
\* fetch has completed.
C4_Witness == inflight = 1 /\ retries >= 1 /\ fetchStarts >= 2

\* C5 (as claimed): once invocation data of length > 0 is present and the
\* fallback fetch, if any, is no longer outstanding, the displayed list and
\* the displayed error are those of the invocation alone.
C5_LateArrivalShowsInvocationOnly ==
    (mounted = "yes" /\ retries = 0 /\ Len(catalogFromTool) > 0 /\ inflight = 0)
        => /\ catalog = catalogFromTool
           /\ Banner(error) = Banner(errorFromTool)

\* C6: the resolved selected card is absent, or a card of the displayed list
\* whose id is the stored one; it is absent when the displayed list holds no
\* card with the stored id.
C6_SelectionInDisplayedList ==
    /\ selectedCard # NoCard
        => /\ \E i \in 1..Len(catalog) : catalog[i] = selectedCard
           /\ selectedCard.id = widgetState.selectedCardId
    /\ (\A i \in 1..Len(catalog) : catalog[i].id # widgetState.selectedCardId)
        => selectedCard = NoCard

\* C6 witness: id 7 is stored, the displayed list has changed to a non-empty
\* one without id 7, and no card is resolved.
C6_Witness ==
    /\ mounted = "yes"
    /\ widgetState.selectedCardId = 7
    /\ Len(catalog) > 0
    /\ \A i \in 1..Len(catalog) : catalog[i].id # 7
    /\ selectedCard = NoCard

---------------------------------------------------------------------------
(* One server-side request: a tool invocation or a POST /api/catalog *)

\* No surface controller is part of a server-side behaviour.
SurfaceIdle ==
    /\ isChatGptApp = FALSE
    /\ mounted = "no"
    /\ toolOutput = NullObj
    /\ widgetState = [selectedCardId |-> NullId]
    /\ localCatalog = <<>>
    /\ loading = FALSE
    /\ localError = Null
    /\ timer = NoTimer
    /\ inflight = 0
    /\ fetchStarts = 0
    /\ retries = 0

\* A request arrives: the key, the remote source's behaviour and the
\* argument are the inputs.
InitServer ==
    /\ SurfaceIdle
    /\ AssetIdle
    /\ phase = "request"
    /\ apiKey \in ApiKeys
    /\ http \in HttpOutcomes
    /\ serviceName \in Queries
    /\ gwResult = [catalog |-> <<>>]
    /\ filteredCatalog = <<>>
    /\ toolResult = NullObj
    /\ postResult = NullObj
    /\ netCalls = 0

\* The show_pricing handler runs: fetchCatalog, the filter, the result.
InvokeTool ==
    /\ phase = "request"
    /\ phase' = "tool"
    /\ gwResult' = FetchCatalog(apiKey, http)
    /\ netCalls' = netCalls + FetchCatalogCalls(apiKey)
    /\ filteredCatalog' =
           IF Truthy(Get(gwResult', "error")) THEN <<>>
           ELSE FilteredCatalog(gwResult'.catalog, serviceName)
    /\ toolResult' = ToolHandler(serviceName, gwResult')
    /\ UNCHANGED <<apiKey, http, serviceName, postResult, surfaceVars, assetVars>>

\* The POST route runs: fetchCatalog, then the response.
PostCatalog ==
    /\ phase = "request"
    /\ phase' = "post"
    /\ gwResult' = FetchCatalog(apiKey, http)
    /\ netCalls' = netCalls + FetchCatalogCalls(apiKey)
    /\ postResult' = PostRoute(gwResult')
    /\ UNCHANGED <<apiKey, http, serviceName, filteredCatalog, toolResult,
                   surfaceVars, assetVars>>

\* Network calls one server process is followed for.
MaxNetCalls == 2

\* A further request reaches the same server process: the module-level
\* CatalogService and what the previous request returned are still there.
NextRequest ==
    /\ phase \in {"tool", "post"}
    /\ netCalls < MaxNetCalls
    /\ phase' = "request"
    /\ http' \in SurfaceHttp
    /\ serviceName' \in SurfaceQueries
    /\ UNCHANGED <<apiKey, gwResult, filteredCatalog, toolResult, postResult,
                   netCalls, surfaceVars, assetVars>>

NextServer == InvokeTool \/ PostCatalog \/ NextRequest

SpecServer == InitServer /\ [][NextServer]_vars

---------------------------------------------------------------------------
(* Claims about the invocation, its filter and the gateway *)

\* The handler has answered and the gateway reported no error.
ToolAnswered == phase = "tool" /\ ~Truthy(Get(gwResult, "error"))

\* t occurs in s at some position.
IsSubstring(t, s) ==
    \E i \in 0..(Len(s) - Len(t)) : SubSeq(s, i + 1, i + Len(t)) = t

\* A field's text, the empty string for a missing field.
FieldText(v) == IF v \in {Undefined, Null} THEN "" ELSE v

\* The query, lower-cased and trimmed, occurs in one of the three fields.
QueryMatches(item, q) ==
    \E v \in {item.service_name, item.variant_name, item.category} :
        IsSubstring(Trim(ToLowerCase(q)), ToLowerCase(FieldText(v)))

\* f is a subsequence of l: some strictly increasing choice of positions
\* of l spells f.
IsSubsequence(f, l) ==
    \E pos \in [1..Len(f) -> 1..Len(l)] :
        /\ \A i, j \in 1..Len(f) : i < j => pos[i] < pos[j]
        /\ \A i \in 1..Len(f) : f[i] = l[pos[i]]

\* C7: when a query is supplied, the gateway's catalog is non-empty and the
\* filter keeps nothing, the payload carries the full catalog in source order
\* and a message; a non-error payload's catalog is empty only if the
\* gateway's is.
C7_NoMatchFallback ==
    ToolAnswered =>
        LET sc == toolResult.structuredContent
        IN  /\ (Truthy(serviceName) /\ Len(gwResult.catalog) > 0
                    /\ Len(filteredCatalog) = 0)
                => /\ sc.catalog = gwResult.catalog
                   /\ "message" \in DOMAIN sc
                   /\ Truthy(sc.message)
            /\ Len(sc.catalog) = 0 => Len(gwResult.catalog) = 0

\* C7 witness: the query "zz" matched none of two items and the payload
\* carries both with a message.
C7_Witness ==
    /\ ToolAnswered
    /\ serviceName = "zz"
    /\ Len(gwResult.catalog) = 2
    /\ filteredCatalog = <<>>
    /\ toolResult.structuredContent.catalog = gwResult.catalog
    /\ "message" \in DOMAIN toolResult.structuredContent

\* C8: for a non-empty query the filter keeps an item exactly when the query,
\* lower-cased and trimmed, is a substring of the lower-cased service name,
\* variant name or category, a missing field counting as the empty string.
C8_FilterKeepsIffSubstring ==
    (ToolAnswered /\ Truthy(serviceName)) =>
        \A i \in 1..Len(gwResult.catalog) :
            (\E j \in 1..Len(filteredCatalog) :
                    filteredCatalog[j] = gwResult.catalog[i])
                <=> QueryMatches(gwResult.catalog[i], serviceName)

\* C8 witness: the query " USA " dropped an item without a service name and
\* kept the item named "USA Co".
C8_Witness ==
    /\ ToolAnswered
    /\ serviceName = " USA "
    /\ gwResult.catalog = <<ItemC, ItemB>>
    /\ filteredCatalog = <<ItemB>>

\* C9: the filter's result is a subsequence of its input, and the input
\* itself for an absent or empty query.
C9_FilterStableSubsequence ==
    ToolAnswered =>
        /\ IsSubsequence(filteredCatalog, gwResult.catalog)
        /\ serviceName \in {Undefined, ""} => filteredCatalog = gwResult.catalog

\* C9 witness: a query kept two different items of a catalog.
C9_Witness ==
    /\ ToolAnswered
    /\ Truthy(serviceName)
    /\ Len(filteredCatalog) = 2
    /\ filteredCatalog[1] # filteredCatalog[2]

\* The outbound HTTP call failed: a rejection, a non-2xx status, or a body
\* that cannot be read.
HttpFailed(h) ==
    \/ h.kind = "reject"
    \/ ~ResponseOk(h.status)
    \/ h.body.t = "invalid"

\* The status line, or the exception's message, that describes the failure.
FailureDescription(h) ==
    IF h.kind = "reject"
    THEN IF h.isError THEN h.message ELSE "Failed to fetch catalog data"
    ELSE IF ~ResponseOk(h.status)
    THEN "Failed to fetch catalog: " \o ToString(h.status) \o " " \o h.statusText
    ELSE h.body.message

\* C10: with a key configured, every failure of the HTTP call makes
\* fetchCatalog return (not raise) an empty catalog and an error that
\* describes the status or carries the exception's message.
C10_HttpFailureIsStructured ==
    (phase \in {"tool", "post"} /\ Truthy(apiKey) /\ HttpFailed(http)) =>
        /\ DOMAIN gwResult = {"catalog", "error"}
        /\ gwResult.catalog = <<>>
        /\ gwResult.error = FailureDescription(http)

\* C10 witness: a 403 answer whose body holds an array became an empty
\* catalog with the status in the error.
C10_Witness ==
    /\ phase \in {"tool", "post"}
    /\ Truthy(apiKey)
    /\ http = Response(403, "Forbidden", ArrayBody(<<ItemA>>))
    /\ gwResult = [catalog |-> <<>>, error |-> "Failed to fetch catalog: 403 Forbidden"]

\* The catalog a decoded body is read as: a bare array, an object's catalog
\* array, an object's data array, and nothing for any other shape.
ShapeCatalog(b) ==
    IF b.t = "array" THEN b.items
    ELSE IF b.t = "object" /\ b.catalog.t = "array" THEN b.catalog.items
    ELSE IF b.t = "object" /\ b.data.t = "array" THEN b.data.items
    ELSE <<>>

\* C11 (as claimed): on a successful response whose body decodes, the three
\* accepted shapes yield their array and every other body, null included,
\* yields an empty catalog, in all cases with no error.
C11_ShapeNormalization ==
    (/\ phase \in {"tool", "post"}
     /\ Truthy(apiKey)
     /\ http.kind = "response"
     /\ ResponseOk(http.status)
     /\ http.body.t # "invalid")
        => gwResult = [catalog |-> ShapeCatalog(http.body)]


\* ------------------------------------------------------------------
\* Location images (image-utils): locationImageMap and getVariantImageUrl
\* ------------------------------------------------------------------

UrlEmpireState ==
    "https://media.istockphoto.com/id/525232662/photo/new-york-empire-state-building-and-statue-of-liberty.jpg?s=1024x1024&w=is&k=20&c=9DG3g3gB1-c01RKG-Iinsigts2CtEGAQE2HoXLOYOhM="
UrlNewYorkSkyline ==
    "https://media.istockphoto.com/id/1406960186/photo/the-skyline-of-new-york-city-united-states.jpg?s=1024x1024&w=is&k=20&c=m5cYGPJsDS6nTsxYucy6jlCj7flGliYw6Lf4Ftg0jQs="
UrlSanFrancisco ==
    "https://media.istockphoto.com/id/1136437406/photo/san-francisco-skyline-with-oakland-bay-bridge-at-sunset-california-usa.jpg?s=1024x1024&w=is&k=20&c=_UuntG09XSAMDFr7E2AVukaN6MWV5jLtnsbSorf-csA="
UrlChicago ==
    "https://media.istockphoto.com/id/1449046495/photo/chicago-river-and-cityscape.jpg?s=1024x1024&w=is&k=20&c=XyBkj-fVzvo0gbbt0Obf8qIhCpGofcC6bYbP2GSjk5g="
UrlCharleston ==
    "https://media.istockphoto.com/id/1924853613/photo/charleston-south-carolina-usa-historic-cityscape.jpg?s=1024x1024&w=is&k=20&c=I8bgWkG76H3S_3QYUqF556Aif78HVVuHZQ3ebyOGBqc="

MapEntry(k, u) == [location |-> k, imageUrl |-> u]

\* Object.entries(locationImageMap): string keys in insertion order.
locationImageMap ==
    << MapEntry("new york", UrlEmpireState),
       MapEntry("ny", UrlNewYorkSkyline),
       MapEntry("new york city", UrlNewYorkSkyline),
       MapEntry("california", UrlSanFrancisco),
       MapEntry("san francisco", UrlSanFrancisco),
       MapEntry("sf", UrlSanFrancisco),
       MapEntry("los angeles", UrlSanFrancisco),
       MapEntry("la", UrlSanFrancisco),
       MapEntry("delaware", UrlChicago),
       MapEntry("chicago", UrlChicago),
       MapEntry("charleston", UrlCharleston),
       MapEntry("south carolina", UrlCharleston),
       MapEntry("usa", UrlChicago),
       MapEntry("united states", UrlChicago),
       MapEntry("default", UrlChicago) >>

\* locationImageMap[key]
MapLookup(key) ==
    LET i == CHOOSE j \in 1..Len(locationImageMap) :
                 locationImageMap[j].location = key
    IN  locationImageMap[i].imageUrl

\* x || ""
OrEmpty(x) == IF Truthy(x) THEN x ELSE ""

\* `${variantName || ""} ${serviceName || ""}`, not lower-cased
SearchTextRaw(v, sv) == OrEmpty(v) \o " " \o OrEmpty(sv)

SearchText(v, sv) == ToLowerCase(SearchTextRaw(v, sv))

\* The for-loop over the entries from position i on.
RECURSIVE ScanEntries(_, _)
ScanEntries(text, i) ==
    IF i > Len(locationImageMap) THEN MapLookup("default")
    ELSE IF /\ locationImageMap[i].location # "default"
            /\ Includes(text, locationImageMap[i].location)
         THEN locationImageMap[i].imageUrl
         ELSE ScanEntries(text, i + 1)

\* Variant of getVariantImageUrl that looks at the variant name only.
GetVariantImageUrlVariantOnly(v, sv) == ScanEntries(SearchText(v, Undefined), 1)

\* Variant of getVariantImageUrl that skips the lower-casing.
GetVariantImageUrlNoLower(v, sv) == ScanEntries(SearchTextRaw(v, sv), 1)

GetVariantImageUrl(v, sv) == ScanEntries(SearchText(v, sv), 1)

\* Keys of the map other than "default".
LocationKeys ==
    {locationImageMap[i].location : i \in 1..Len(locationImageMap)} \ {"default"}

\* Arguments the cards are resolved with: absent, empty, every key by
\* itself, and names in the catalog's mixed case.
VariantNames ==
    LocationKeys \cup
    {Undefined, "", "default", "Atlantis", "San Francisco", "New York City",
     "Delaware LLC", "Sunnyvale", "Basic"}

ItemServiceNames ==
    {Undefined, "", "Mystery Co", "SF", "USA Company Registration"}

InitAsset ==
    /\ SurfaceIdle
    /\ apiKey = ConfiguredApiKey
    /\ http = Reject(TRUE, "")
    /\ serviceName = Undefined
    /\ gwResult = [catalog |-> <<>>]
    /\ filteredCatalog = <<>>
    /\ toolResult = NullObj
    /\ postResult = NullObj
    /\ netCalls = 0
    /\ phase = "resolve"
    /\ variantName \in VariantNames
    /\ itemServiceName \in ItemServiceNames
    /\ imageUrl = ""

\* A card calls getVariantImageUrl(variant.name, item.serviceName).
ResolveImage ==
    /\ phase = "resolve"
    /\ imageUrl' = GetVariantImageUrl(variantName, itemServiceName)
    /\ phase' = "resolved"
    /\ UNCHANGED <<variantName, itemServiceName, apiKey, http, serviceName,
                   gwResult, filteredCatalog, toolResult, postResult, netCalls,
                   surfaceVars>>

NextAsset == ResolveImage

SpecAsset == InitAsset /\ [][NextAsset]_vars

\* C12 (as claimed): resolving ("Atlantis", "Mystery Co") gives the URL
\* stored under the "default" key, no keyword of the map being contained in
\* that text.
C12_AtlantisIsDefault ==
    (/\ phase = "resolved"
     /\ variantName = "Atlantis"
     /\ itemServiceName = "Mystery Co")
        => /\ imageUrl = MapLookup("default")
           /\ \A k \in LocationKeys :
                  ~IsSubstring(k, SearchText(variantName, itemServiceName))


\* C13 (as claimed): the declared order keeps every key reachable: for
\* every key k other than "default", resolving the text k alone returns the
\* URL declared for k.
C13_EveryKeyReachable ==
    (/\ phase = "resolved"
     /\ variantName \in LocationKeys
     /\ itemServiceName = Undefined)
        => imageUrl = MapLookup(variantName)


\* Positions of the keys other than "default" that occur in the text.
ContainedKeys(text) ==
    {i \in 1..Len(locationImageMap) :
        /\ locationImageMap[i].location # "default"
        /\ IsSubstring(locationImageMap[i].location, text)}

\* The least element of a non-empty set of positions.
FirstOf(S) == CHOOSE i \in S : \A j \in S : i <= j

\* C19: getVariantImageUrl is total and first-match: for every pair of
\* arguments, either or both possibly absent, the result is a non-empty URL,
\* the one of the first key other than "default", in declaration order, that
\* occurs in the lower-cased text variant + " " + service, or the "default"
\* URL when no key occurs.
C19_TotalFirstMatch ==
    phase = "resolved" =>
        LET text == ToLowerCase(FieldText(variantName) \o " "
                                \o FieldText(itemServiceName))
            hits == ContainedKeys(text)
        IN  /\ imageUrl # ""
            /\ imageUrl = IF hits = {} THEN MapLookup("default")
                          ELSE locationImageMap[FirstOf(hits)].imageUrl

\* Reached: a mixed-case name containing two keys gets the first one's
\* image, with the second argument absent.
C19_Witness ==
    /\ phase = "resolved"
    /\ variantName = "New York City"
    /\ itemServiceName = Undefined
    /\ Cardinality(ContainedKeys("new york city ")) = 2
    /\ imageUrl = UrlEmpireState


\* The last local fetch ended in the catch branch and nothing replaced it.
LocalFetchFailed == mounted = "yes" /\ ~loading /\ Truthy(localError)

\* C14 (as claimed): after a local fetch has failed the surface shows the
\* effective error and offers the Retry button, so that a new local fetch
\* can be started by hand.
C14_FailedStateOffersRetry ==
    LocalFetchFailed => (Truthy(error) /\ RetryShown)


\* fetchCatalog returned an object with an error property.
GatewayReturnedError == phase = "tool" /\ "error" \in DOMAIN gwResult

\* C15 (as claimed): when the gateway returns an error, the invocation
\* answers with an empty catalog, the gateway's error string unchanged in
\* the payload and a text containing it, and the payload carries no count
\* and no message.
C15_GatewayErrorAnswer ==
    GatewayReturnedError =>
        LET sc == toolResult.structuredContent
        IN  /\ sc.catalog = <<>>
            /\ "error" \in DOMAIN sc
            /\ sc.error = gwResult.error
            /\ IsSubstring(gwResult.error, toolResult.text)
            /\ "count" \notin DOMAIN sc
            /\ "message" \notin DOMAIN sc


\* The text states the number n.
StatesCount(text, n) == IsSubstring(ToString(n), text)

\* C16 (as claimed): for every non-error invocation result, the no-match
\* fallback and the empty catalog included, the text states the number of
\* items in the payload and echoes the query when one was supplied.
C16_SummaryStatesCount ==
    ToolAnswered =>
        /\ StatesCount(toolResult.text, Len(toolResult.structuredContent.catalog))
        /\ Truthy(serviceName) => IsSubstring(serviceName, toolResult.text)

\* C16 (amended): for every non-error invocation result the text echoes the
\* query when one was supplied; it states the number of items in the payload
\* ("Found n service(s)") when the filtered set is not empty, and states no
\* number at all when the filtered set is empty (no-match fallback, empty
\* catalog).
C16_SummaryText ==
    ToolAnswered =>
        LET text == toolResult.text
            n == Len(toolResult.structuredContent.catalog)
        IN  /\ Truthy(serviceName) => IsSubstring(serviceName, text)
            /\ Len(filteredCatalog) > 0 =>
                   IsSubstring("Found " \o ToString(n) \o " service(s)", text)
            /\ Len(filteredCatalog) = 0 =>
                   \A k \in 0..MaxCatalogLen : ~StatesCount(text, k)

\* Reached: the no-match fallback for a supplied query, whose text quotes
\* the query and has no number in it.
C16_Witness ==
    /\ ToolAnswered
    /\ Truthy(serviceName)
    /\ Len(filteredCatalog) = 0
    /\ Len(toolResult.structuredContent.catalog) > 0
    /\ IsSubstring(serviceName, toolResult.text)
    /\ ~StatesCount(toolResult.text, Len(toolResult.structuredContent.catalog))


\* The no-match fallback: nothing passed the filter although the gateway's
\* catalog has items.
NoMatchFallback == Len(filteredCatalog) = 0 /\ Len(gwResult.catalog) > 0

\* C17 (as claimed): in every non-error invocation other than the no-match
\* fallback, the empty gateway catalog included, the payload carries the
\* filtered set, a count equal to its length, and no message.
C17_PayloadIsFilteredSet ==
    (ToolAnswered /\ ~NoMatchFallback) =>
        LET sc == toolResult.structuredContent
        IN  /\ sc.catalog = filteredCatalog
            /\ sc.count = Len(filteredCatalog)
            /\ "message" \notin DOMAIN sc

\* C17 (amended): in every non-error invocation other than the no-match
\* fallback the payload carries the filtered set and a count equal to its
\* length; it carries no message when the filtered set is not empty, and it
\* carries a message when the gateway's catalog is itself empty ("No services
\* available" without a query, "No matching services found, showing all"
\* with one).
C17_PayloadAndMessage ==
    (ToolAnswered /\ ~NoMatchFallback) =>
        LET sc == toolResult.structuredContent
        IN  /\ sc.catalog = filteredCatalog
            /\ sc.count = Len(filteredCatalog)
            /\ Len(filteredCatalog) > 0 => "message" \notin DOMAIN sc
            /\ Len(gwResult.catalog) = 0 =>
                   /\ "message" \in DOMAIN sc
                   /\ sc.message = IF Truthy(serviceName)
                                   THEN "No matching services found, showing all"
                                   ELSE "No services available"

\* Reached: the gateway answered with an empty catalog and no error, and
\* the payload is the empty filtered set with count 0 and a message.
C17_Witness ==
    /\ ToolAnswered
    /\ http.kind = "response"
    /\ gwResult = [catalog |-> <<>>]
    /\ toolResult.structuredContent.catalog = <<>>
    /\ toolResult.structuredContent.count = 0
    /\ toolResult.structuredContent.message = "No services available"


\* C18 (as claimed): error and data are never combined: a gateway result
\* with an error has an empty catalog, and neither the invocation payload,
\* nor the local endpoint's response, nor the surface's effective view shows
\* a present error together with a non-empty list of items.
C18_ErrorXorData ==
    /\ "error" \in DOMAIN gwResult => gwResult.catalog = <<>>
    /\ phase = "tool" =>
           ~(/\ Truthy(Get(toolResult.structuredContent, "error"))
             /\ Len(toolResult.structuredContent.catalog) > 0)
    /\ phase = "post" =>
           ~(/\ "error" \in DOMAIN postResult.body
             /\ "catalog" \in DOMAIN postResult.body)
    /\ mounted = "yes" => ~(Truthy(error) /\ Len(catalog) > 0)


\* C20: once the component is unmounted no grace timer is pending and no
\* local fetch is started any more, at whatever point of the grace window
\* the unmount happened.
C20_UnmountCancelsTimer ==
    [][mounted' = "gone" =>
          /\ ~timer'.pending
          /\ mounted = "gone" => fetchStarts' = fetchStarts]_vars

\* Reached: a host-mode surface unmounted inside its grace window, before
\* any tool output and before any local fetch.
C20_Witness ==
    /\ mounted = "gone"
    /\ isChatGptApp
    /\ toolOutput = NullObj
    /\ fetchStarts = 0
    /\ ~timer.pending


\* C21: when the stored key is absent or empty, fetchCatalog returns an
\* empty catalog with a non-empty error and makes no network call.
C21_MissingKeyNoNetwork ==
    (phase \in {"tool", "post"} /\ ~Truthy(apiKey)) =>
        /\ gwResult.catalog = <<>>
        /\ "error" \in DOMAIN gwResult
        /\ Truthy(gwResult.error)
        /\ Len(gwResult.error) > 0
        /\ netCalls = 0

\* Reached: a gateway without a key was asked while the remote source would
\* have answered with items.
C21_Witness ==
    /\ phase \in {"tool", "post"}
    /\ apiKey = Undefined
    /\ http.kind = "response"
    /\ ResponseOk(http.status)
    /\ ShapeCatalog(http.body) # <<>>
    /\ gwResult.catalog = <<>>
    /\ netCalls = 0


\* C22: getVariantImageUrl("San Francisco", "") and
\* getVariantImageUrl("", "SF") return the same URL, the one declared for
\* the key "san francisco".
C22_SanFranciscoAliases ==
    (/\ phase = "resolved"
     /\ \/ variantName = "San Francisco" /\ itemServiceName = ""
        \/ variantName = "" /\ itemServiceName = "SF")
        => imageUrl = MapLookup("san francisco")

\* Reached: the alias given as the service name alone resolved to the San
\* Francisco image, which is not the default one.
C22_Witness ==
    /\ phase = "resolved"
    /\ variantName = ""
    /\ itemServiceName = "SF"
    /\ imageUrl = UrlSanFrancisco
    /\ imageUrl # MapLookup("default")


\* C23 (as claimed): for every gateway outcome the local endpoint answers
\* 200 with only { catalog } when the gateway reported no error, and 500
\* with only { error } when the gateway reported an error.
C23_EndpointAnswers ==
    phase = "post" =>
        IF "error" \in DOMAIN gwResult
        THEN postResult = [status |-> 500, body |-> [error |-> gwResult.error]]
        ELSE postResult = [status |-> 200, body |-> [catalog |-> gwResult.catalog]]


\* A step in which the fallback effect, not the Retry button, starts a local
\* fetch.
AutomaticFetchStarts == fetchStarts' > fetchStarts /\ retries' = retries

\* A step that arms the grace timer anew.
TimerArmed ==
    /\ timer'.pending
    /\ ~timer.pending \/ timer'.remaining > timer.remaining

\* C24: in host mode the fallback effect starts a local fetch only from a
\* timer armed with the full 2000 ms whose delay has run out while the
\* invocation has supplied no items; and a mounted host-mode surface that has
\* not fetched yet does eventually start a local fetch unless invocation
\* items arrive or it is unmounted.
C24_GraceWindow ==
    /\ [][isChatGptApp =>
            /\ AutomaticFetchStarts =>
                   /\ timer.pending
                   /\ timer.remaining = 0
                   /\ Len(catalogFromTool) = 0
            /\ TimerArmed => timer'.remaining = 2000]_vars
    /\ (mounted = "yes" /\ isChatGptApp /\ fetchStarts = 0)
           ~> (fetchStarts > 0 \/ Len(catalogFromTool) > 0 \/ mounted = "gone")

\* Reached: a host-mode surface without invocation data whose fallback fetch
\* was started by the timer.
C24_Witness ==
    /\ isChatGptApp
    /\ mounted = "yes"
    /\ toolOutput = NullObj
    /\ retries = 0
    /\ fetchStarts = 1
    /\ loading


\* C25: in standalone mode the step that mounts the component, with no
\* invocation data, no local data and no local error, starts a local fetch
\* in that very step, and arms no timer.
C25_StandaloneFetchesAtMount ==
    [][(/\ ~isChatGptApp
        /\ mounted = "no" /\ mounted' = "yes"
        /\ Len(catalogFromTool) = 0 /\ Len(localCatalog) = 0
        /\ ~Truthy(localError))
           => /\ fetchStarts' = fetchStarts + 1
              /\ inflight' = inflight + 1
              /\ loading'
              /\ ~timer'.pending]_vars

\* Reached: a standalone surface just mounted, its only fetch in flight.
C25_Witness ==
    /\ ~isChatGptApp
    /\ mounted = "yes"
    /\ retries = 0
    /\ fetchStarts = 1
    /\ inflight = 1
    /\ loading
    /\ ~timer.pending


\* C26: the stored selection changes only by a click on a card of the
\* displayed list, which stores that card's id, or by closing the details,
\* which stores null; a step in which invocation data arrives, a local fetch
\* starts or ends, the timer runs or fires, Retry is clicked or the component
\* mounts or unmounts leaves it as it was.
C26_SelectionFrame ==
    [][/\ widgetState' # widgetState =>
              \/ widgetState' = [selectedCardId |-> NullId]
              \/ \E i \in 1..Len(catalog) :
                     widgetState' = [selectedCardId |-> catalog[i].id]
       /\ (\/ toolOutput' # toolOutput
           \/ fetchStarts' # fetchStarts
           \/ inflight' # inflight
           \/ timer' # timer
           \/ retries' # retries
           \/ localCatalog' # localCatalog
           \/ localError' # localError
           \/ mounted' # mounted)
              => widgetState' = widgetState]_vars

\* Reached: a selection stored on a surface that has clicked Retry, holds
\* a local list and has received invocation items.
C26_Witness ==
    /\ widgetState.selectedCardId = 7
    /\ Len(localCatalog) > 0
    /\ Len(catalogFromTool) > 0
    /\ retries > 0


\* C27: a step that answers an invocation or a request to the local
\* endpoint makes one gateway fetch, whose result is that of the HTTP call
\* of this very request and not of an earlier one, and that fetch makes
\* exactly one network call when a key is stored, none otherwise, whatever
\* the call's outcome.
C27_OneFetchOneCall ==
    [][(phase = "request" /\ phase' \in {"tool", "post"}) =>
          /\ netCalls' = netCalls + (IF Truthy(apiKey) THEN 1 ELSE 0)
          /\ Truthy(apiKey) =>
                 IF HttpFailed(http)
                 THEN Get(gwResult', "error") = FailureDescription(http)
                 ELSE \/ gwResult' = [catalog |-> ShapeCatalog(http.body)]
                      \/ http.body.t = "null"
          /\ phase' = "tool" =>
                 toolResult'.structuredContent.serviceName = OrNull(serviceName)]_vars

\* Reached: a second request was answered after a first one whose HTTP call
\* had failed, with the second call's items and two network calls in all.
C27_Witness ==
    /\ phase = "tool"
    /\ netCalls = 2
    /\ postResult # NullObj
    /\ postResult.status = 500
    /\ Len(gwResult.catalog) > 0


\* C28 (as claimed): while the stored id is that of a card of the displayed
\* list, the resolved selected card is that card, for every integer id the
\* catalog may carry, 0 included.
C28_SelectedItemResolved ==
    \A i \in 1..Len(catalog) :
        (/\ mounted = "yes"
         /\ catalog[i].id = widgetState.selectedCardId
         /\ \A j \in 1..Len(catalog) : catalog[j].id = catalog[i].id => j = i)
            => selectedCard = catalog[i]


\* C29: as long as the component is not unmounted, loading is true exactly
\* while a local fetch is in flight: it is set with the request, and the
\* fetch's end, be it a catalog, a non-OK response or an exception, resets it.
C29_LoadingIffInFlight ==
    mounted # "gone" => (loading <=> inflight > 0)

\* Reached: a local fetch has failed and the flag is down again.
C29_Witness ==
    /\ mounted = "yes"
    /\ fetchStarts > 0
    /\ inflight = 0
    /\ Truthy(localError)
    /\ ~loading


\* C30 (as claimed): whenever fetchCatalog returns an error, whatever the
\* cause, the error is a non-empty string, so that the invocation handler
\* and the local endpoint take their error branch.
C30_ErrorIsNonEmpty ==
    (phase \in {"tool", "post"} /\ "error" \in DOMAIN gwResult) =>
        /\ gwResult.error # ""
        /\ phase = "tool" => "error" \in DOMAIN toolResult.structuredContent
        /\ phase = "post" => postResult.status = 500

=============================================================================
